---- MODULE Spec2Model ----
(***************************************************************************)
(* asg53: a Lambda handler that, on an autoscaling lifecycle notification, *)
(* renders a templated Route 53 change batch against the instance's data,  *)
(* submits it, waits for it to be INSYNC and completes the lifecycle hook  *)
(* with CONTINUE or ABANDON.                                               *)
(*                                                                         *)
(* Strings that may hold template text (a record's Name, a resource        *)
(* record's Value) are kept as the sequence of items text/template parses  *)
(* them into: literal text and {{...}} actions.  A rendered string is the  *)
(* single literal item holding the concatenated output (no item for "").   *)
(***************************************************************************)
EXTENDS Integers, Sequences, FiniteSets, TLC

VARIABLES
    evt,            \* the raw event handed to handle
    pc,             \* position of the invocation inside handle
    ret,            \* what handle returned: "none" (running), "nil", "err", "panic"
    failed,         \* the step whose error ended handle, "" if none
    message,        \* snsMessage returned by parseFullEvent
    args,           \* messageArgs returned by parseFullEvent (HostedZoneID)
    Batch,          \* args.Changes = data.Batch, one slice of pointers, edited in place
    data,           \* instanceData built by populate
    n,              \* WriteTemplateFields: index of the record being rendered
    fld,            \* WriteTemplateFields: 0 = Name is next, k = Value #k-1 is next
    renderKind,     \* how the last template rendered: "" (none yet), "ok", "err", "panic"
    lookups,        \* ListResourceRecordSets requests made so far
    renders,        \* the template strings rendered so far: record, field, outcome
    calls,          \* the ExistingRDataValue calls made so far, with their answers
    nDescribe,      \* calls of ec2 DescribeInstances
    described,      \* what DescribeInstances answered, in order
    sent,           \* ChangeResourceRecordSets requests made so far
    sendErr,        \* error returned by SendRoute53ChangeBatch ("" = nil)
    waitState,      \* state of the waiter: "", "PENDING", "INSYNC", "TIMED_OUT", "ERROR"
    pollLog,        \* what each GetChange poll answered, in order
    hb,             \* the heartbeat goroutine: "none", "select", "sleeping", "exited"
    hbCount,        \* heartbeat goroutines started
    hbLogs,         \* "Still waiting" lines logged (counted up to MaxHbLogs)
    logAfterWait,   \* a "Still waiting" line was logged after w.Wait() returned
    logAfterReturn, \* a "Still waiting" line was logged after WaitForRoute53Sync returned
    signals,        \* results passed to CompleteLifecycleAction, in order
    sigErrs,        \* CompleteLifecycleAction calls that returned an error
    published,      \* two invocations: the values Route 53 holds for the shared record
    inv,            \* two invocations: each one's position, batch and lookup
    raceLog         \* two invocations: the Route 53 calls made, in order

vars == <<evt, pc, ret, failed, message, args, Batch, data, n, fld, renderKind, lookups,
          renders, calls, nDescribe, described, sent, sendErr, waitState, pollLog, hb, hbCount, hbLogs, logAfterWait,
          logAfterReturn, signals, sigErrs, published, inv, raceLog>>

----------------------------------------------------------------------------
(* Bounds of the model *)

\* "Still waiting" lines are counted up to this many; later ones are logged
\* but leave the counter where it is.
MaxHbLogs == 2

(* Program constants *)

\* waiterCfg.MaxAttempts
MaxAttempts == 24

\* message.Event of a test notification
TestNotification == "autoscaling:TEST_NOTIFICATION"

----------------------------------------------------------------------------
(* Template text *)

\* literal text outside {{ }}
Lit(s) == [k |-> "lit", s |-> s, i |-> 0, j |-> 0]
\* {{.InstanceID}}
FInstanceID == [k |-> "InstanceID", s |-> "", i |-> 0, j |-> 0]
\* {{.InstancePrivateIPAddress}}
FPrivate == [k |-> "InstancePrivateIPAddress", s |-> "", i |-> 0, j |-> 0]
\* {{.InstancePublicIPAddress}}
FPublic == [k |-> "InstancePublicIPAddress", s |-> "", i |-> 0, j |-> 0]
\* {{.ExistingRDataValue i j}}
FExisting(i, j) == [k |-> "ExistingRDataValue", s |-> "", i |-> i, j |-> j]
\* an action text/template cannot parse, such as an unclosed {{
FMalformed == [k |-> "malformed", s |-> "", i |-> 0, j |-> 0]

\* The template string calls ExistingRDataValue.
HasLookup(t) == \E p \in 1..Len(t) : t[p].k = "ExistingRDataValue"

\* The string s as template text: aws.String(rendered.String()).
Text(s) == IF s = "" THEN <<>> ELSE <<Lit(s)>>

----------------------------------------------------------------------------
(* The inputs explored *)

HostTemplate == <<FInstanceID, Lit(".example.com.")>>

Change(action, name, type, values) ==
    [Action |-> action, Name |-> name, Type |-> type, TTL |-> 3600, Values |-> values]

\* the batch of testMetadataJSON
BatchScenarioA ==
    << Change("CREATE", HostTemplate, "A", << <<FPublic>> >>),
       Change("CREATE", Text("www.example.com."), "CNAME", << HostTemplate >>) >>

\* the DELETE example of the documentation
BatchDelete ==
    << Change("DELETE", HostTemplate, "A", << <<FExisting(0, 0)>> >>) >>

\* record 0 asks for the existing value of record 1, which is rendered later
BatchForward ==
    << Change("UPSERT", Text("www.example.com."), "CNAME", << <<FExisting(1, 0)>> >>),
       Change("DELETE", HostTemplate, "A", << <<FPrivate>> >>) >>

\* set index = batch length; value index 1
BatchOutOfRange ==
    << Change("DELETE", Text("www.example.com."), "CNAME",
              << <<FExisting(0, 1)>>, <<FExisting(1, 0)>> >>) >>

\* negative indexes
BatchNegativeSet ==
    << Change("DELETE", HostTemplate, "A", << <<FExisting(0 - 1, 0)>> >>) >>

BatchNegativeValue ==
    << Change("DELETE", HostTemplate, "A", << <<FExisting(0, 0 - 1)>> >>) >>

\* no placeholder at all
BatchLiteral ==
    << Change("UPSERT", Text("static.example.com."), "A",
              << Text("192.0.2.1"), Text("192.0.2.2") >>) >>

\* a Value that does not parse, after a Name and a Value that do
BatchBadValue ==
    << Change("UPSERT", HostTemplate, "A", << <<FPrivate>>, <<FMalformed>> >>),
       Change("UPSERT", Text("www.example.com."), "CNAME", << HostTemplate >>) >>

\* a Name that does not parse, in the second record
BatchBadName ==
    << Change("UPSERT", HostTemplate, "A", << <<FPublic>> >>),
       Change("UPSERT", <<FMalformed>>, "A", << <<FPublic>> >>) >>

\* a Name that asks for the existing value of its own record
BatchOwnName ==
    << Change("UPSERT", <<FExisting(0, 0), Lit(".example.com.")>>, "CNAME",
              << Text("target.example.com.") >>) >>

Batches ==
    { BatchScenarioA, BatchDelete, BatchForward, BatchOutOfRange, BatchNegativeSet,
      BatchNegativeValue, BatchLiteral, BatchBadValue, BatchBadName, BatchOwnName, <<>> }

HostedZoneIDs == {"ABCDEF0123456789", "bad"}

TestInstanceID == "i-123456789"

\* The inner SNS message, as JSON text: parses ("ok") or not, and what it decodes to.
\* NotificationMetadata is itself JSON text: "" (absent), "malformed", or "ok"
\* with the messageArgs it decodes to.
InnerMessage(event, meta, zone, changes) ==
    [json |-> "ok", Event |-> event, EC2InstanceID |-> TestInstanceID,
     NotificationMetadata |-> [json |-> meta, HostedZoneID |-> zone, Changes |-> changes]]

MalformedInner ==
    [json |-> "malformed", Event |-> "", EC2InstanceID |-> "",
     NotificationMetadata |-> [json |-> "", HostedZoneID |-> "", Changes |-> <<>>]]

Event(outer, records) == [json |-> outer, Records |-> records]

Events ==
    { Event("malformed", <<>>), Event("ok", <<>>), Event("ok", <<MalformedInner>>) }
    \cup { Event("ok", <<InnerMessage(TestNotification, m, "", <<>>)>>) :
             m \in {"", "malformed"} }
    \cup { Event("ok", <<InnerMessage(TestNotification, "ok", z, BatchScenarioA)>>) :
             z \in HostedZoneIDs }
    \cup { Event("ok", <<InnerMessage("autoscaling:EC2_INSTANCE_LAUNCHING", m, "", <<>>)>>) :
             m \in {"", "malformed"} }
    \cup { Event("ok", <<InnerMessage("autoscaling:EC2_INSTANCE_TERMINATING", "ok", z, b)>>) :
             z \in HostedZoneIDs, b \in Batches }

\* A *string attribute of the EC2 API: nil or a value.
Nil == [nil |-> TRUE, v |-> ""]
Str(s) == [nil |-> FALSE, v |-> s]

Instance(private, public) == [PrivateIpAddress |-> private, PublicIpAddress |-> public]

\* What DescribeInstances may answer: an error, or Reservations (each its Instances).
DescribeResponses ==
    { [err |-> TRUE, Reservations |-> <<>>],
      [err |-> FALSE, Reservations |-> <<>>],
      [err |-> FALSE, Reservations |-> << <<>> >>],
      [err |-> FALSE, Reservations |-> << <<Instance(Str("10.0.0.1"), Str("54.0.0.1"))>> >>],
      [err |-> FALSE, Reservations |-> << <<Instance(Nil, Str(""))>> >>],
      [err |-> FALSE,
       Reservations |-> << <<Instance(Str("10.0.0.2"), Nil),
                             Instance(Str("10.0.0.3"), Str("54.0.0.3"))>>,
                           <<Instance(Str("10.0.0.4"), Str("54.0.0.4"))>> >>] }

RecordSet(name, type, values) == [Name |-> name, Type |-> type, Values |-> values]

\* Record sets the hosted zone may hold.
RecordSets ==
    { RecordSet("i-123456789.example.com.", "A", <<"54.0.0.1">>),
      RecordSet("www.example.com.", "CNAME", <<"a.example.com.", "b.example.com.">>),
      RecordSet("zzz.example.com.", "TXT", <<>>) }

\* What ListResourceRecordSets (MaxItems 1) may answer: an error, nothing, or the
\* first record set at or after the requested name and type.
ListResponses ==
    { [err |-> TRUE, ResourceRecordSets |-> <<>>],
      [err |-> FALSE, ResourceRecordSets |-> <<>>] }
    \cup { [err |-> FALSE, ResourceRecordSets |-> <<rs>>] : rs \in RecordSets }

NoResponse == [err |-> TRUE, ResourceRecordSets |-> <<>>]

----------------------------------------------------------------------------
(* Notification decoder *)

ZeroMessage == [Event |-> "", EC2InstanceID |-> "", NotificationMetadata |-> ""]
ZeroArgs == [HostedZoneID |-> "", Changes |-> <<>>]

\* Variant: the metadata is decoded before the test notification is looked for.
parseFullEventMetadataFirst(raw) ==
    IF raw.json # "ok"
    THEN [err |-> TRUE, message |-> ZeroMessage, args |-> ZeroArgs, metaParsed |-> FALSE]
    ELSE IF Len(raw.Records) < 1
    THEN [err |-> TRUE, message |-> ZeroMessage, args |-> ZeroArgs, metaParsed |-> FALSE]
    ELSE IF raw.Records[1].json # "ok"
    THEN [err |-> TRUE, message |-> ZeroMessage, args |-> ZeroArgs, metaParsed |-> FALSE]
    ELSE LET in == raw.Records[1]
             parsedMessage ==
                 [Event |-> in.Event, EC2InstanceID |-> in.EC2InstanceID,
                  NotificationMetadata |-> in.NotificationMetadata.json]
         IN  IF in.NotificationMetadata.json # "ok"
             THEN [err |-> TRUE, message |-> parsedMessage, args |-> ZeroArgs,
                   metaParsed |-> TRUE]
             ELSE [err |-> FALSE, message |-> parsedMessage,
                   args |-> [HostedZoneID |-> in.NotificationMetadata.HostedZoneID,
                             Changes |-> in.NotificationMetadata.Changes],
                   metaParsed |-> TRUE]

\* parseFullEvent: the outer event, the first record's SNS message, then (unless
\* this is a test notification) the metadata.  metaParsed tells whether
\* parseSNSMetadata was called.
parseFullEvent(raw) ==
    IF raw.json # "ok"
    THEN [err |-> TRUE, message |-> ZeroMessage, args |-> ZeroArgs, metaParsed |-> FALSE]
    ELSE IF Len(raw.Records) < 1
    THEN [err |-> TRUE, message |-> ZeroMessage, args |-> ZeroArgs, metaParsed |-> FALSE]
    ELSE IF raw.Records[1].json # "ok"
    THEN [err |-> TRUE, message |-> ZeroMessage, args |-> ZeroArgs, metaParsed |-> FALSE]
    ELSE LET in == raw.Records[1]
             parsedMessage ==
                 [Event |-> in.Event, EC2InstanceID |-> in.EC2InstanceID,
                  NotificationMetadata |-> in.NotificationMetadata.json]
         IN  IF parsedMessage.Event = TestNotification
             THEN [err |-> FALSE, message |-> parsedMessage, args |-> ZeroArgs,
                   metaParsed |-> FALSE]
             ELSE IF in.NotificationMetadata.json # "ok"
             THEN [err |-> TRUE, message |-> parsedMessage, args |-> ZeroArgs,
                   metaParsed |-> TRUE]
             ELSE [err |-> FALSE, message |-> parsedMessage,
                   args |-> [HostedZoneID |-> in.NotificationMetadata.HostedZoneID,
                             Changes |-> in.NotificationMetadata.Changes],
                   metaParsed |-> TRUE]

----------------------------------------------------------------------------
(* Instance attribute resolver *)

\* Variant: the last instance of the first reservation is returned.
FetchEC2InstanceDataLastInstance(resp) ==
    IF resp.err
    THEN [err |-> TRUE, instance |-> Instance(Nil, Nil)]
    ELSE IF Len(resp.Reservations) < 1
    THEN [err |-> TRUE, instance |-> Instance(Nil, Nil)]
    ELSE IF Len(resp.Reservations[1]) < 1
    THEN [err |-> TRUE, instance |-> Instance(Nil, Nil)]
    ELSE [err |-> FALSE, instance |-> resp.Reservations[1][Len(resp.Reservations[1])]]

\* FetchEC2InstanceData, given what DescribeInstances answered.
FetchEC2InstanceData(resp) ==
    IF resp.err
    THEN [err |-> TRUE, instance |-> Instance(Nil, Nil)]
    ELSE IF Len(resp.Reservations) < 1
    THEN [err |-> TRUE, instance |-> Instance(Nil, Nil)]
    ELSE IF Len(resp.Reservations[1]) < 1
    THEN [err |-> TRUE, instance |-> Instance(Nil, Nil)]
    ELSE [err |-> FALSE, instance |-> resp.Reservations[1][1]]

\* instanceData, without the Batch: that is the variable Batch.
ZeroData(hostedZoneID) ==
    [HostedZoneID |-> hostedZoneID, InstanceID |-> "",
     InstancePrivateIPAddress |-> "", InstancePublicIPAddress |-> ""]

\* Variant: an instance without a private or a public address is an error.
populateRequiresAddresses(instanceID, hostedZoneID, resp) ==
    LET got == FetchEC2InstanceData(resp)
        instance == got.instance
    IN  IF got.err
           \/ instance.PrivateIpAddress.nil \/ instance.PrivateIpAddress.v = ""
           \/ instance.PublicIpAddress.nil \/ instance.PublicIpAddress.v = ""
        THEN [err |-> TRUE, data |-> ZeroData(hostedZoneID)]
        ELSE [err |-> FALSE,
              data |-> [HostedZoneID |-> hostedZoneID,
                        InstanceID |-> instanceID,
                        InstancePrivateIPAddress |-> instance.PrivateIpAddress.v,
                        InstancePublicIPAddress |-> instance.PublicIpAddress.v]]

\* Variant: the private address is stored as the public one and the public
\* address as the private one.
populateSwapsAddresses(instanceID, hostedZoneID, resp) ==
    LET got == FetchEC2InstanceData(resp)
        instance == got.instance
    IN  IF got.err
        THEN [err |-> TRUE, data |-> ZeroData(hostedZoneID)]
        ELSE [err |-> FALSE,
              data |-> [HostedZoneID |-> hostedZoneID,
                        InstanceID |-> instanceID,
                        InstancePrivateIPAddress |->
                            IF ~instance.PublicIpAddress.nil /\ instance.PublicIpAddress.v # ""
                            THEN instance.PublicIpAddress.v ELSE "",
                        InstancePublicIPAddress |->
                            IF ~instance.PrivateIpAddress.nil /\ instance.PrivateIpAddress.v # ""
                            THEN instance.PrivateIpAddress.v ELSE ""]]

\* populate, given what DescribeInstances answered.
populate(instanceID, hostedZoneID, resp) ==
    LET got == FetchEC2InstanceData(resp)
        instance == got.instance
    IN  IF got.err
        THEN [err |-> TRUE, data |-> ZeroData(hostedZoneID)]
        ELSE [err |-> FALSE,
              data |-> [HostedZoneID |-> hostedZoneID,
                        InstanceID |-> instanceID,
                        InstancePrivateIPAddress |->
                            IF ~instance.PrivateIpAddress.nil /\ instance.PrivateIpAddress.v # ""
                            THEN instance.PrivateIpAddress.v ELSE "",
                        InstancePublicIPAddress |->
                            IF ~instance.PublicIpAddress.nil /\ instance.PublicIpAddress.v # ""
                            THEN instance.PublicIpAddress.v ELSE ""]]

----------------------------------------------------------------------------
(* Existing-record lookup *)

\* FindRoute53ResourceRecord, given what ListResourceRecordSets answered: the
\* values of the first record set returned, whatever its name and type.
FindRoute53ResourceRecord(resp) ==
    IF resp.err
    THEN [err |-> TRUE, rData |-> <<>>]
    ELSE IF Len(resp.ResourceRecordSets) < 1
    THEN [err |-> TRUE, rData |-> <<>>]
    ELSE [err |-> FALSE, rData |-> resp.ResourceRecordSets[1].Values]

\* Variant: the request is built from the first record of the batch.
ListRequestOfFirstRecord(d, batch, rrSetIndex) ==
    [HostedZoneId |-> d.HostedZoneID,
     StartRecordName |-> batch[1].Name,
     StartRecordType |-> batch[1].Type,
     rrSetIndex |-> rrSetIndex]

\* The ListResourceRecordSets request ExistingRDataValue makes for rrSetIndex.
ListRequest(d, batch, rrSetIndex) ==
    [HostedZoneId |-> d.HostedZoneID,
     StartRecordName |-> batch[rrSetIndex + 1].Name,
     StartRecordType |-> batch[rrSetIndex + 1].Type,
     rrSetIndex |-> rrSetIndex]

\* Variant: the range checks compare with len(x) instead of len(x)-1, so an
\* index equal to the length passes them and the slice access panics.
ExistingRDataValueOffByOne(d, batch, rrSetIndex, rDataIndex, resp) ==
    IF Len(batch) < rrSetIndex
    THEN [kind |-> "err", why |-> "rrSet index out of range", val |-> "", reqs |-> <<>>]
    ELSE IF rrSetIndex < 0 \/ rrSetIndex >= Len(batch)
    THEN [kind |-> "panic", why |-> "index out of range", val |-> "", reqs |-> <<>>]
    ELSE LET req == ListRequest(d, batch, rrSetIndex)
             found == FindRoute53ResourceRecord(resp)
         IN  IF found.err
             THEN [kind |-> "err", why |-> "lookup", val |-> "", reqs |-> <<req>>]
             ELSE IF Len(found.rData) < rDataIndex
             THEN [kind |-> "err", why |-> "rDataIndex index out of range", val |-> "",
                   reqs |-> <<req>>]
             ELSE IF rDataIndex < 0 \/ rDataIndex >= Len(found.rData)
             THEN [kind |-> "panic", why |-> "index out of range", val |-> "",
                   reqs |-> <<req>>]
             ELSE [kind |-> "ok", why |-> "", val |-> found.rData[rDataIndex + 1],
                   reqs |-> <<req>>]

\* ExistingRDataValue(rrSetIndex, rDataIndex), given what the lookup (if made)
\* answers.  kind is "ok", "err" (an error is returned) or "panic" (an index
\* below zero passes the range check and the slice access panics); reqs holds
\* the lookup request when one is made, why names the error.
ExistingRDataValue(d, batch, rrSetIndex, rDataIndex, resp) ==
    IF Len(batch) - 1 < rrSetIndex
    THEN [kind |-> "err", why |-> "rrSet index out of range", val |-> "", reqs |-> <<>>]
    ELSE IF rrSetIndex < 0
    THEN [kind |-> "panic", why |-> "index out of range", val |-> "", reqs |-> <<>>]
    ELSE LET req == ListRequest(d, batch, rrSetIndex)
             found == FindRoute53ResourceRecord(resp)
         IN  IF found.err
             THEN [kind |-> "err", why |-> "lookup", val |-> "", reqs |-> <<req>>]
             ELSE IF Len(found.rData) - 1 < rDataIndex
             THEN [kind |-> "err", why |-> "rDataIndex index out of range", val |-> "",
                   reqs |-> <<req>>]
             ELSE IF rDataIndex < 0
             THEN [kind |-> "panic", why |-> "index out of range", val |-> "",
                   reqs |-> <<req>>]
             ELSE [kind |-> "ok", why |-> "", val |-> found.rData[rDataIndex + 1],
                   reqs |-> <<req>>]

----------------------------------------------------------------------------
(* Template resolution engine *)

\* template.Parse: fails on a malformed action, before anything is executed.
ParseFails(t) == \E p \in 1..Len(t) : t[p].k = "malformed"

RECURSIVE Exec(_, _, _, _, _, _)
\* template.Execute from item p on: the items are evaluated left to right and
\* written to the buffer; the first item that fails ends the execution.
\* resps[p] is what the lookup of item p answers, acc the result so far.
Exec(t, p, d, batch, resps, acc) ==
    IF p > Len(t) THEN acc
    ELSE LET it == t[p] IN
        IF it.k = "lit"
        THEN Exec(t, p + 1, d, batch, resps, [acc EXCEPT !.out = @ \o it.s])
        ELSE IF it.k = "InstanceID"
        THEN Exec(t, p + 1, d, batch, resps, [acc EXCEPT !.out = @ \o d.InstanceID])
        ELSE IF it.k = "InstancePrivateIPAddress"
        THEN Exec(t, p + 1, d, batch, resps,
                  [acc EXCEPT !.out = @ \o d.InstancePrivateIPAddress])
        ELSE IF it.k = "InstancePublicIPAddress"
        THEN Exec(t, p + 1, d, batch, resps,
                  [acc EXCEPT !.out = @ \o d.InstancePublicIPAddress])
        ELSE LET r == ExistingRDataValue(d, batch, it.i, it.j, resps[p])
                 call == [rrSetIndex |-> it.i, rDataIndex |-> it.j, resp |-> resps[p],
                          result |-> r]
             IN
            IF r.kind = "ok"
            THEN Exec(t, p + 1, d, batch, resps,
                      [acc EXCEPT !.out = @ \o r.val, !.reqs = @ \o r.reqs,
                                  !.calls = Append(@, call)])
            ELSE [kind |-> r.kind, out |-> acc.out, reqs |-> acc.reqs \o r.reqs,
                  calls |-> Append(acc.calls, call)]

\* Parse and Execute of one template string against d.
Render(t, d, batch, resps) ==
    IF ParseFails(t)
    THEN [kind |-> "err", out |-> "", reqs |-> <<>>, calls |-> <<>>]
    ELSE Exec(t, 1, d, batch, resps,
              [kind |-> "ok", out |-> "", reqs |-> <<>>, calls |-> <<>>])

\* The answers the DNS service may give to the lookups of template t: one per
\* ExistingRDataValue item (NoResponse stands at the items that make no lookup).
Answers(t) ==
    { f \in [1..Len(t) -> ListResponses] :
        \A p \in 1..Len(t) : t[p].k # "ExistingRDataValue" => f[p] = NoResponse }

----------------------------------------------------------------------------
(* The invocation: handle *)

\* The state of one invocation when handle is entered.
HandleInit ==
    /\ evt \in Events
    /\ pc = "start"
    /\ ret = "none"
    /\ failed = ""
    /\ message = ZeroMessage
    /\ args = [HostedZoneID |-> ""]
    /\ Batch = <<>>
    /\ data = ZeroData("")
    /\ n = 0
    /\ fld = 0
    /\ renderKind = ""
    /\ lookups = <<>>
    /\ renders = <<>>
    /\ calls = <<>>
    /\ nDescribe = 0
    /\ described = <<>>
    /\ sent = <<>>
    /\ sendErr = ""
    /\ waitState = ""
    /\ pollLog = <<>>
    /\ hb = "none"
    /\ hbCount = 0
    /\ hbLogs = 0
    /\ logAfterWait = FALSE
    /\ logAfterReturn = FALSE
    /\ signals = <<>>
    /\ sigErrs = 0

Init ==
    /\ HandleInit
    /\ published = <<>>
    /\ inv = <<>>
    /\ raceLog = <<>>

renderVars == <<Batch, n, fld, renderKind, lookups, renders, calls>>
waitVars == <<waitState, pollLog, hb, hbCount, hbLogs, logAfterWait, logAfterReturn>>
inputVars == <<evt, message, args, data, nDescribe, described>>
\* the state of the two-invocation specification, which one invocation leaves alone
raceVars == <<published, inv, raceLog>>

\* return nil, err: the error of step goes back to the Lambda runtime.
ReturnErr(step) ==
    /\ pc' = "done"
    /\ ret' = "err"
    /\ failed' = step

\* An index panic inside template.Execute: text/template as of Go 1.12 recovers
\* the panic of a called method and Execute returns it as an error; before, the
\* panic goes up through WriteTemplateFields and handle.
Panics ==
    \/ ReturnErr("template")
    \/ /\ pc' = "done"
       /\ ret' = "panic"
       /\ failed' = "panic"

\* message, args, err := parseFullEvent(evt); an error is returned.
ParseEvent ==
    /\ pc = "start"
    /\ LET r == parseFullEvent(evt) IN
        /\ message' = r.message
        /\ args' = [HostedZoneID |-> r.args.HostedZoneID]
        /\ Batch' = r.args.Changes
        /\ IF r.err
           THEN ReturnErr("decode")
           ELSE pc' = "client" /\ UNCHANGED <<ret, failed>>
    /\ UNCHANGED <<evt, data, n, fld, renderKind, lookups, renders, calls, nDescribe,
                   described, sent, sendErr, signals, sigErrs>>
    /\ UNCHANGED waitVars
    /\ UNCHANGED raceVars

\* client, err := newAWSClient() succeeds.
NewAWSClient ==
    /\ pc = "client"
    /\ pc' = "event"
    /\ UNCHANGED <<ret, failed, sent, sendErr, signals, sigErrs>>
    /\ UNCHANGED <<inputVars, renderVars, waitVars>>
    /\ UNCHANGED raceVars

\* client, err := newAWSClient() fails (session.NewSession returns an error);
\* the error is returned.
NewAWSClientFails ==
    /\ pc = "client"
    /\ ReturnErr("client")
    /\ UNCHANGED <<sent, sendErr, signals, sigErrs>>
    /\ UNCHANGED <<inputVars, renderVars, waitVars>>
    /\ UNCHANGED raceVars

\* A test notification is ignored: return nil, nil.
DropTestNotification ==
    /\ pc = "event"
    /\ message.Event = TestNotification
    /\ pc' = "done"
    /\ ret' = "nil"
    /\ UNCHANGED <<failed, sent, sendErr, signals, sigErrs>>
    /\ UNCHANGED <<inputVars, renderVars, waitVars>>
    /\ UNCHANGED raceVars

\* data, err := populate(...), with the one DescribeInstances call it makes.
Populate ==
    /\ pc = "event"
    /\ message.Event # TestNotification
    /\ \E resp \in DescribeResponses :
        LET r == populate(message.EC2InstanceID, args.HostedZoneID, resp) IN
        /\ nDescribe' = nDescribe + 1
        /\ described' = Append(described, resp)
        /\ data' = r.data
        /\ IF r.err
           THEN ReturnErr("instance")
           ELSE pc' = "render" /\ UNCHANGED <<ret, failed>>
    /\ n' = 0
    /\ fld' = 0
    /\ UNCHANGED <<evt, message, args, Batch, renderKind, lookups, renders, calls, sent,
                   sendErr, signals, sigErrs>>
    /\ UNCHANGED waitVars
    /\ UNCHANGED raceVars

\* Variant: the loop over the Values stops one short.
NextFieldSkipsLastValue(batch, r, f) ==
    IF f + 1 < Len(batch[r + 1].Values)
    THEN [n |-> r, fld |-> f + 1]
    ELSE [n |-> r + 1, fld |-> 0]

\* The field rendered after field f of record r: the record's next Value, or
\* the Name of the next record.
NextField(batch, r, f) ==
    IF f < Len(batch[r + 1].Values)
    THEN [n |-> r, fld |-> f + 1]
    ELSE [n |-> r + 1, fld |-> 0]

\* Variant: the error of Parse or Execute is logged and handle goes on to send
\* the batch.
TemplateErrorIgnored ==
    /\ pc' = "send"
    /\ UNCHANGED <<ret, failed>>

\* An error of Parse or Execute in WriteTemplateFields: handle returns it.
TemplateError == ReturnErr("template")

\* Variant: a Value is replaced by the rendering of the record's Name
\* (nameRendered written where valueRendered is meant).
RenderFieldValueFromName(t, isName) ==
    \E resps \in Answers(t) :
        LET r == Render(t, data, Batch, resps) IN
        /\ lookups' = lookups \o r.reqs
        /\ renderKind' = r.kind
        /\ renders' = Append(renders, [n |-> n, fld |-> fld, kind |-> r.kind])
        /\ calls' = calls \o [p \in 1..Len(r.calls) |->
                                 [n |-> n, fld |-> fld, call |-> r.calls[p]]]
        /\ IF r.kind = "ok"
           THEN /\ Batch' = IF isName
                            THEN [Batch EXCEPT ![n + 1].Name = Text(r.out)]
                            ELSE [Batch EXCEPT ![n + 1].Values[fld] = Batch[n + 1].Name]
                /\ n' = NextField(Batch, n, fld).n
                /\ fld' = NextField(Batch, n, fld).fld
                /\ UNCHANGED <<pc, ret, failed>>
           ELSE /\ UNCHANGED <<Batch, n, fld>>
                /\ IF r.kind = "err" THEN TemplateError ELSE Panics

\* Variant: a failed rendering puts the batch back as the event carries it.
RenderFieldRollsBack(t, isName) ==
    \E resps \in Answers(t) :
        LET r == Render(t, data, Batch, resps) IN
        /\ lookups' = lookups \o r.reqs
        /\ renderKind' = r.kind
        /\ renders' = Append(renders, [n |-> n, fld |-> fld, kind |-> r.kind])
        /\ calls' = calls \o [p \in 1..Len(r.calls) |->
                                 [n |-> n, fld |-> fld, call |-> r.calls[p]]]
        /\ IF r.kind = "ok"
           THEN /\ Batch' = IF isName
                            THEN [Batch EXCEPT ![n + 1].Name = Text(r.out)]
                            ELSE [Batch EXCEPT ![n + 1].Values[fld] = Text(r.out)]
                /\ n' = NextField(Batch, n, fld).n
                /\ fld' = NextField(Batch, n, fld).fld
                /\ UNCHANGED <<pc, ret, failed>>
           ELSE /\ Batch' = parseFullEvent(evt).args.Changes
                /\ UNCHANGED <<n, fld>>
                /\ IF r.kind = "err" THEN TemplateError ELSE Panics

\* One template string of WriteTemplateFields is parsed, executed and, when
\* that succeeds, replaced by its rendering.  t is the string, isName tells
\* whether it is the Name of record n or its Value #fld-1.
RenderField(t, isName) ==
    \E resps \in Answers(t) :
        LET r == Render(t, data, Batch, resps) IN
        /\ lookups' = lookups \o r.reqs
        /\ renderKind' = r.kind
        /\ renders' = Append(renders, [n |-> n, fld |-> fld, kind |-> r.kind])
        /\ calls' = calls \o [p \in 1..Len(r.calls) |->
                                 [n |-> n, fld |-> fld, call |-> r.calls[p]]]
        /\ IF r.kind = "ok"
           THEN /\ Batch' = IF isName
                            THEN [Batch EXCEPT ![n + 1].Name = Text(r.out)]
                            ELSE [Batch EXCEPT ![n + 1].Values[fld] = Text(r.out)]
                /\ n' = NextField(Batch, n, fld).n
                /\ fld' = NextField(Batch, n, fld).fld
                /\ UNCHANGED <<pc, ret, failed>>
           ELSE /\ UNCHANGED <<Batch, n, fld>>
                /\ IF r.kind = "err" THEN TemplateError ELSE Panics

\* WriteTemplateFields: the Name of record n.
RenderName ==
    /\ pc = "render"
    /\ n < Len(Batch)
    /\ fld = 0
    /\ RenderField(Batch[n + 1].Name, TRUE)
    /\ UNCHANGED <<sent, sendErr, signals, sigErrs>>
    /\ UNCHANGED <<inputVars, waitVars>>
    /\ UNCHANGED raceVars

\* WriteTemplateFields: Value #fld-1 of record n.
RenderValue ==
    /\ pc = "render"
    /\ n < Len(Batch)
    /\ fld >= 1
    /\ RenderField(Batch[n + 1].Values[fld], FALSE)
    /\ UNCHANGED <<sent, sendErr, signals, sigErrs>>
    /\ UNCHANGED <<inputVars, waitVars>>
    /\ UNCHANGED raceVars

\* WriteTemplateFields returns nil after the last record.
WriteTemplateFieldsDone ==
    /\ pc = "render"
    /\ n = Len(Batch)
    /\ pc' = "send"
    /\ UNCHANGED <<ret, failed, sent, sendErr, signals, sigErrs>>
    /\ UNCHANGED <<inputVars, renderVars, waitVars>>
    /\ UNCHANGED raceVars

----------------------------------------------------------------------------
(* Propagation driver: SendRoute53ChangeBatch and WaitForRoute53Sync *)

\* Variant: the batch is sent as the event carries it, not as rendered.
ChangeRequestOfEvent ==
    [HostedZoneId |-> args.HostedZoneID, Changes |-> parseFullEvent(evt).args.Changes]

\* The ChangeResourceRecordSets request of SendRoute53ChangeBatch(args.HostedZoneID,
\* args.Changes).
ChangeRequest == [HostedZoneId |-> args.HostedZoneID, Changes |-> Batch]

\* ChangeResourceRecordSets accepts the batch: WaitForRoute53Sync is entered.
SendAccepted ==
    /\ pc = "send"
    /\ sent' = Append(sent, ChangeRequest)
    /\ pc' = "wait"
    /\ UNCHANGED <<ret, failed, sendErr, signals, sigErrs>>
    /\ UNCHANGED <<inputVars, renderVars, waitVars>>
    /\ UNCHANGED raceVars

\* Variant: handle returns the error of a rejected batch to the runtime.
SendRejectedReturnsErr ==
    /\ pc = "send"
    /\ sent' = Append(sent, ChangeRequest)
    /\ sendErr' = "Error sending change batch"
    /\ ReturnErr("send")
    /\ UNCHANGED <<signals, sigErrs>>
    /\ UNCHANGED <<inputVars, renderVars, waitVars>>
    /\ UNCHANGED raceVars

\* Variant: WaitForRoute53Sync is entered although the batch was rejected.
SendRejectedStartsWait ==
    /\ pc = "send"
    /\ sent' = Append(sent, ChangeRequest)
    /\ sendErr' = "Error sending change batch"
    /\ pc' = "wait"
    /\ UNCHANGED <<ret, failed, signals, sigErrs>>
    /\ UNCHANGED <<inputVars, renderVars, waitVars>>
    /\ UNCHANGED raceVars

\* ChangeResourceRecordSets rejects the batch: SendRoute53ChangeBatch returns
\* the error at once.
SendRejected ==
    /\ pc = "send"
    /\ sent' = Append(sent, ChangeRequest)
    /\ sendErr' = "Error sending change batch"
    /\ pc' = "report"
    /\ UNCHANGED <<ret, failed, signals, sigErrs>>
    /\ UNCHANGED <<inputVars, renderVars, waitVars>>
    /\ UNCHANGED raceVars

\* WaitForRoute53Sync up to w.Wait(): the waiter is set up, the stop channel
\* made and the heartbeat goroutine started.
StartWait ==
    /\ pc = "wait"
    /\ waitState' = "PENDING"
    /\ hb' = "select"
    /\ hbCount' = hbCount + 1
    /\ pc' = "polling"
    /\ UNCHANGED <<ret, failed, sent, sendErr, signals, sigErrs, pollLog, hbLogs,
                   logAfterWait, logAfterReturn>>
    /\ UNCHANGED <<inputVars, renderVars>>
    /\ UNCHANGED raceVars

\* Variant: the loop runs once more, i <= MaxAttempts.
MayPollOnceMore == Len(pollLog) <= MaxAttempts

\* The loop condition of w.Wait(): for i := 0; i < MaxAttempts; i++.
MayPoll == Len(pollLog) < MaxAttempts

\* One attempt of w.Wait(): GetChange answers a status other than INSYNC; no
\* acceptor matches, the waiter sleeps Delay seconds and goes round the loop.
PollPending ==
    /\ pc = "polling"
    /\ MayPoll
    /\ pollLog' = Append(pollLog, "PENDING")
    /\ UNCHANGED <<pc, ret, failed, sent, sendErr, signals, sigErrs, waitState, hb,
                   hbCount, hbLogs, logAfterWait, logAfterReturn>>
    /\ UNCHANGED <<inputVars, renderVars>>
    /\ UNCHANGED raceVars

\* Variant: INSYNC is noted but the loop is not left.
PollInsyncKeepsPolling ==
    /\ pc = "polling"
    /\ MayPoll
    /\ pollLog' = Append(pollLog, "INSYNC")
    /\ waitState' = "INSYNC"
    /\ UNCHANGED <<pc, ret, failed, sent, sendErr, signals, sigErrs, hb, hbCount, hbLogs,
                   logAfterWait, logAfterReturn>>
    /\ UNCHANGED <<inputVars, renderVars>>
    /\ UNCHANGED raceVars

\* One attempt of w.Wait(): GetChange answers INSYNC; the "success" acceptor
\* matches and Wait returns nil.
PollInsync ==
    /\ pc = "polling"
    /\ MayPoll
    /\ pollLog' = Append(pollLog, "INSYNC")
    /\ waitState' = "INSYNC"
    /\ pc' = "stop"
    /\ UNCHANGED <<ret, failed, sent, sendErr, signals, sigErrs, hb, hbCount, hbLogs,
                   logAfterWait, logAfterReturn>>
    /\ UNCHANGED <<inputVars, renderVars>>
    /\ UNCHANGED raceVars

\* Variant: after a failed GetChange request the batch is sent again.
PollErrorResubmits ==
    /\ pc = "polling"
    /\ MayPoll
    /\ Len(sent) < 3
    /\ pollLog' = Append(pollLog, "error")
    /\ sent' = Append(sent, ChangeRequest)
    /\ UNCHANGED <<pc, ret, failed, sendErr, signals, sigErrs, waitState, hb,
                   hbCount, hbLogs, logAfterWait, logAfterReturn>>
    /\ UNCHANGED <<inputVars, renderVars>>
    /\ UNCHANGED raceVars

\* Variant: a failed GetChange request is taken as transient; the waiter sleeps
\* and goes round the loop.
PollErrorRetried ==
    /\ pc = "polling"
    /\ MayPoll
    /\ pollLog' = Append(pollLog, "error")
    /\ UNCHANGED <<pc, ret, failed, sent, sendErr, signals, sigErrs, waitState, hb,
                   hbCount, hbLogs, logAfterWait, logAfterReturn>>
    /\ UNCHANGED <<inputVars, renderVars>>
    /\ UNCHANGED raceVars

\* One attempt of w.Wait(): the GetChange request fails.  The waiter has only
\* the "path" acceptor, which does not match a failed request, and Wait returns
\* the request's error without another attempt.
PollError ==
    /\ pc = "polling"
    /\ MayPoll
    /\ pollLog' = Append(pollLog, "error")
    /\ waitState' = "ERROR"
    /\ sendErr' = "GetChange error"
    /\ pc' = "stop"
    /\ UNCHANGED <<ret, failed, sent, signals, sigErrs, hb, hbCount, hbLogs,
                   logAfterWait, logAfterReturn>>
    /\ UNCHANGED <<inputVars, renderVars>>
    /\ UNCHANGED raceVars

\* w.Wait() after MaxAttempts attempts without INSYNC: it returns the
\* ResourceNotReady error ("exceeded 24 wait attempts").
WaitExhausted ==
    /\ pc = "polling"
    /\ ~MayPoll
    /\ waitState' = "TIMED_OUT"
    /\ sendErr' = "ResourceNotReady"
    /\ pc' = "stop"
    /\ UNCHANGED <<ret, failed, sent, signals, sigErrs, pollLog, hb, hbCount, hbLogs,
                   logAfterWait, logAfterReturn>>
    /\ UNCHANGED <<inputVars, renderVars>>
    /\ UNCHANGED raceVars

\* The heartbeat goroutine at its select: nothing is being sent on stop, so
\* the default case runs and the goroutine sleeps five seconds.
HeartbeatSleep ==
    /\ hb = "select"
    /\ pc # "stop"
    /\ hb' = "sleeping"
    /\ UNCHANGED <<pc, ret, failed, sent, sendErr, signals, sigErrs, waitState, pollLog,
                   hbCount, hbLogs, logAfterWait, logAfterReturn>>
    /\ UNCHANGED <<inputVars, renderVars>>
    /\ UNCHANGED raceVars

\* Variant: the heartbeat goroutine ends the wait when it logs.
HeartbeatLogEndsWait ==
    /\ hb = "sleeping"
    /\ hb' = "select"
    /\ hbLogs' = IF hbLogs < MaxHbLogs THEN hbLogs + 1 ELSE hbLogs
    /\ logAfterWait' = (logAfterWait \/ pc \in {"stop", "report", "done"})
    /\ logAfterReturn' = (logAfterReturn \/ pc \in {"report", "done"})
    /\ waitState' = "TIMED_OUT"
    /\ UNCHANGED <<pc, ret, failed, sent, sendErr, signals, sigErrs, pollLog, hbCount>>
    /\ UNCHANGED <<inputVars, renderVars>>
    /\ UNCHANGED raceVars

\* Variant: the goroutine sleeps and logs for ever, without a select on stop.
HeartbeatLogSleepsAgain ==
    /\ hb = "sleeping"
    /\ hb' = "sleeping"
    /\ hbLogs' = IF hbLogs < MaxHbLogs THEN hbLogs + 1 ELSE hbLogs
    /\ logAfterWait' = (logAfterWait \/ pc \in {"stop", "report", "done"})
    /\ logAfterReturn' = (logAfterReturn \/ pc \in {"report", "done"})
    /\ UNCHANGED <<pc, ret, failed, sent, sendErr, signals, sigErrs, waitState, pollLog,
                   hbCount>>
    /\ UNCHANGED <<inputVars, renderVars>>
    /\ UNCHANGED raceVars

\* The heartbeat goroutine wakes up, logs "Still waiting ..." and goes back to
\* its select.
HeartbeatLog ==
    /\ hb = "sleeping"
    /\ hb' = "select"
    /\ hbLogs' = IF hbLogs < MaxHbLogs THEN hbLogs + 1 ELSE hbLogs
    /\ logAfterWait' = (logAfterWait \/ pc \in {"stop", "report", "done"})
    /\ logAfterReturn' = (logAfterReturn \/ pc \in {"report", "done"})
    /\ UNCHANGED <<pc, ret, failed, sent, sendErr, signals, sigErrs, waitState, pollLog,
                   hbCount>>
    /\ UNCHANGED <<inputVars, renderVars>>
    /\ UNCHANGED raceVars

\* Variant: stop has a buffer of one, so the send does not wait for the
\* heartbeat goroutine.
StopWithoutWaiting ==
    /\ pc = "stop"
    /\ pc' = "report"
    /\ UNCHANGED <<ret, failed, sent, sendErr, signals, sigErrs, waitState, pollLog, hb,
                   hbCount, hbLogs, logAfterWait, logAfterReturn>>
    /\ UNCHANGED <<inputVars, renderVars>>
    /\ UNCHANGED raceVars

\* stop <- true; return err.  stop is unbuffered: the send completes when the
\* heartbeat goroutine takes the value at its select, and the goroutine returns.
StopHeartbeat ==
    /\ pc = "stop"
    /\ hb = "select"
    /\ hb' = "exited"
    /\ pc' = "report"
    /\ UNCHANGED <<ret, failed, sent, sendErr, signals, sigErrs, waitState, pollLog,
                   hbCount, hbLogs, logAfterWait, logAfterReturn>>
    /\ UNCHANGED <<inputVars, renderVars>>
    /\ UNCHANGED raceVars

----------------------------------------------------------------------------
(* Outcome reporter *)

\* Variant: an error of CompleteLifecycleAction is returned to the runtime.
CompleteEscalates(result) ==
    /\ signals' = Append(signals, result)
    /\ \E delivered \in BOOLEAN :
        /\ sigErrs' = IF delivered THEN sigErrs ELSE sigErrs + 1
        /\ ret' = IF delivered THEN "nil" ELSE "err"
    /\ pc' = "done"
    /\ UNCHANGED <<failed, sent, sendErr>>
    /\ UNCHANGED <<inputVars, renderVars, waitVars>>

\* CompleteAutoscalingAction(message, result), whether or not
\* CompleteLifecycleAction returns an error; handle ignores its result and
\* returns nil, nil.
Complete(result) ==
    /\ signals' = Append(signals, result)
    /\ \E delivered \in BOOLEAN :
        sigErrs' = IF delivered THEN sigErrs ELSE sigErrs + 1
    /\ pc' = "done"
    /\ ret' = "nil"
    /\ UNCHANGED <<failed, sent, sendErr>>
    /\ UNCHANGED <<inputVars, renderVars, waitVars>>

\* Variant: the return after ABANDON is missing and CONTINUE is sent as well.
ReportAbandonFallsThrough ==
    /\ pc = "report"
    /\ sendErr # ""
    /\ signals' = signals \o <<"ABANDON", "CONTINUE">>
    /\ pc' = "done"
    /\ ret' = "nil"
    /\ UNCHANGED <<failed, sent, sendErr, sigErrs>>
    /\ UNCHANGED <<inputVars, renderVars, waitVars>>
    /\ UNCHANGED raceVars

\* SendRoute53ChangeBatch returned an error: ABANDON.
ReportAbandon ==
    /\ pc = "report"
    /\ sendErr # ""
    /\ Complete("ABANDON")
    /\ UNCHANGED raceVars

\* Variant: CONTINUE is sent whatever SendRoute53ChangeBatch returned.
ReportContinueUnguarded ==
    /\ pc = "report"
    /\ Complete("CONTINUE")
    /\ UNCHANGED raceVars

\* Variant: CONTINUE is sent as soon as the batch is accepted, while the status
\* is still being polled.
ReportContinueWhilePolling ==
    /\ pc \in {"polling", "report"}
    /\ sendErr = ""
    /\ signals = <<>>
    /\ signals' = Append(signals, "CONTINUE")
    /\ pc' = IF pc = "report" THEN "done" ELSE pc
    /\ ret' = IF pc = "report" THEN "nil" ELSE ret
    /\ UNCHANGED <<failed, sent, sendErr, sigErrs>>
    /\ UNCHANGED <<inputVars, renderVars, waitVars>>
    /\ UNCHANGED raceVars

\* SendRoute53ChangeBatch returned nil: CONTINUE.
ReportContinue ==
    /\ pc = "report"
    /\ sendErr = ""
    /\ Complete("CONTINUE")
    /\ UNCHANGED raceVars

----------------------------------------------------------------------------

Next ==
    \/ ParseEvent
    \/ NewAWSClient
    \/ NewAWSClientFails
    \/ DropTestNotification
    \/ Populate
    \/ RenderName
    \/ RenderValue
    \/ WriteTemplateFieldsDone
    \/ SendAccepted
    \/ SendRejected
    \/ StartWait
    \/ PollPending
    \/ PollInsync
    \/ PollError
    \/ WaitExhausted
    \/ HeartbeatSleep
    \/ HeartbeatLog
    \/ StopHeartbeat
    \/ ReportAbandon
    \/ ReportContinue

Spec == Init /\ [][Next]_vars

\* The steps of handle's own goroutine.  StopHeartbeat is among them: the send
\* on stop is handle's step, taken together with the receive.
Handle ==
    \/ ParseEvent
    \/ NewAWSClient
    \/ NewAWSClientFails
    \/ DropTestNotification
    \/ Populate
    \/ RenderName
    \/ RenderValue
    \/ WriteTemplateFieldsDone
    \/ SendAccepted
    \/ SendRejected
    \/ StartWait
    \/ PollPending
    \/ PollInsync
    \/ PollError
    \/ WaitExhausted
    \/ StopHeartbeat
    \/ ReportAbandon
    \/ ReportContinue

\* The Go scheduler runs every goroutine that can run: handle goes on whenever
\* it is not blocked (every collaborator call returns), and the heartbeat
\* goroutine's time.Sleep ends.
FairSpec == Spec /\ WF_vars(Handle) /\ WF_vars(HeartbeatLog)

----------------------------------------------------------------------------
(* Two invocations of handle on one record of one hosted zone.  Each is
   followed from WriteTemplateFields to the ChangeResourceRecordSets call of
   SendRoute53ChangeBatch; Route 53 holds the record both work on. *)

Invocations == {1, 2}

\* The record both invocations work on.
SharedName == "www.example.com."

\* The context populate built for invocation i: its own instance.
RaceData(i) ==
    [HostedZoneID |-> "ABCDEF0123456789",
     InstanceID |-> IF i = 1 THEN "i-1" ELSE "i-2",
     InstancePrivateIPAddress |-> IF i = 1 THEN "10.0.0.1" ELSE "10.0.0.2",
     InstancePublicIPAddress |-> IF i = 1 THEN "54.0.0.1" ELSE "54.0.0.2"]

\* Change batches on the shared record: publish the instance's address, delete
\* the record with the value it has, keep its first value and add the
\* instance's address.
RaceBatches ==
    { << Change("UPSERT", Text(SharedName), "A", << <<FPublic>> >>) >>,
      << Change("DELETE", Text(SharedName), "A", << <<FExisting(0, 0)>> >>) >>,
      << Change("UPSERT", Text(SharedName), "A", << <<FExisting(0, 0)>>, <<FPublic>> >>) >> }

\* What ListResourceRecordSets answers while Route 53 holds values for the
\* shared record (none: the record does not exist).
ListAnswer(values) ==
    IF values = <<>>
    THEN [err |-> FALSE, ResourceRecordSets |-> <<>>]
    ELSE [err |-> FALSE, ResourceRecordSets |-> << RecordSet(SharedName, "A", values) >>]

\* The answers to the lookups of template t.
RaceAnswers(t, values) ==
    [p \in 1..Len(t) |->
        IF t[p].k = "ExistingRDataValue" THEN ListAnswer(values) ELSE NoResponse]

\* The values the ExistingRDataValue calls of one rendering returned.
ValuesRead(r) ==
    LET ok == SelectSeq(r.calls, LAMBDA c : c.result.kind = "ok")
    IN  [p \in 1..Len(ok) |-> ok[p].result.val]

\* WriteTemplateFields from Value #x-1 of the first record on.
RECURSIVE WriteValues(_, _, _, _, _)
WriteValues(batch, x, d, values, read) ==
    IF x > Len(batch[1].Values)
    THEN [kind |-> "ok", Batch |-> batch, read |-> read]
    ELSE LET t == batch[1].Values[x]
             r == Render(t, d, batch, RaceAnswers(t, values))
         IN  IF r.kind # "ok"
             THEN [kind |-> r.kind, Batch |-> batch, read |-> read \o ValuesRead(r)]
             ELSE WriteValues([batch EXCEPT ![1].Values[x] = Text(r.out)], x + 1, d,
                              values, read \o ValuesRead(r))

\* WriteTemplateFields on a batch of one record: the Name, then the Values.
WriteFields(batch, d, values) ==
    LET t == batch[1].Name
        r == Render(t, d, batch, RaceAnswers(t, values))
    IN  IF r.kind # "ok"
        THEN [kind |-> r.kind, Batch |-> batch, read |-> ValuesRead(r)]
        ELSE WriteValues([batch EXCEPT ![1].Name = Text(r.out)], 1, d, values,
                         ValuesRead(r))

\* A rendered Name or Value as the string it is.
AsString(t) == IF t = <<>> THEN "" ELSE t[1].s

\* The values of a rendered change.
ChangeValues(c) == [x \in 1..Len(c.Values) |-> AsString(c.Values[x])]

\* Route 53 on a change of the shared record: an UPSERT replaces the values; a
\* DELETE is accepted only with exactly the values the record has.
Accepts(c, values) == c.Action = "UPSERT" \/ (values # <<>> /\ ChangeValues(c) = values)

Applied(c, values) ==
    IF ~Accepts(c, values) THEN values
    ELSE IF c.Action = "UPSERT" THEN ChangeValues(c)
    ELSE <<>>

RaceInit ==
    /\ HandleInit
    /\ evt = Event("ok", <<>>)
    /\ published \in { <<>>, <<"54.0.0.9">> }
    /\ inv \in [Invocations ->
                 { [pc |-> "render", Batch |-> b, read |-> <<>>, ret |-> "none",
                    result |-> ""] : b \in RaceBatches }]
    /\ raceLog = <<>>

handleVars == <<pc, ret, failed, sent, sendErr, signals, sigErrs, inputVars, renderVars,
                waitVars>>

\* Variant: a lock around lookup and submission: no invocation renders while
\* another one has rendered and not yet submitted.
RaceRenderExclusive(i) ==
    /\ inv[i].pc = "render"
    /\ \A j \in Invocations \ {i} : inv[j].pc # "send"
    /\ LET w == WriteFields(inv[i].Batch, RaceData(i), published) IN
        /\ inv' = [inv EXCEPT ![i] =
                      [pc |-> IF w.kind = "ok" THEN "send" ELSE "done",
                       Batch |-> w.Batch,
                       read |-> w.read,
                       ret |-> IF w.kind = "ok" THEN "none" ELSE "err",
                       result |-> ""]]
        /\ raceLog' = IF \E x \in 1..Len(inv[i].Batch[1].Values) :
                             HasLookup(inv[i].Batch[1].Values[x])
                      THEN Append(raceLog, [inv |-> i, op |-> "lookup", held |-> published,
                                            values |-> w.read, accepted |-> w.kind = "ok"])
                      ELSE raceLog
    /\ UNCHANGED published
    /\ UNCHANGED handleVars

\* Invocation i: data.WriteTemplateFields(), with its lookups of the record
\* as Route 53 holds it now; an error is returned.
RaceRender(i) ==
    /\ inv[i].pc = "render"
    /\ LET w == WriteFields(inv[i].Batch, RaceData(i), published) IN
        /\ inv' = [inv EXCEPT ![i] =
                      [pc |-> IF w.kind = "ok" THEN "send" ELSE "done",
                       Batch |-> w.Batch,
                       read |-> w.read,
                       ret |-> IF w.kind = "ok" THEN "none" ELSE "err",
                       result |-> ""]]
        /\ raceLog' = IF \E x \in 1..Len(inv[i].Batch[1].Values) :
                             HasLookup(inv[i].Batch[1].Values[x])
                      THEN Append(raceLog, [inv |-> i, op |-> "lookup", held |-> published,
                                            values |-> w.read, accepted |-> w.kind = "ok"])
                      ELSE raceLog
    /\ UNCHANGED published
    /\ UNCHANGED handleVars

\* Invocation i: ChangeResourceRecordSets with the batch as rendered; Route 53
\* applies it or rejects it, and handle goes on to its signal and returns nil.
RaceSend(i) ==
    /\ inv[i].pc = "send"
    /\ LET c == inv[i].Batch[1] IN
        /\ published' = Applied(c, published)
        /\ inv' = [inv EXCEPT ![i].pc = "done",
                              ![i].ret = "nil",
                              ![i].result = IF Accepts(c, published)
                                            THEN "accepted" ELSE "rejected"]
        /\ raceLog' = Append(raceLog, [inv |-> i, op |-> "send", held |-> published,
                                       values |-> ChangeValues(c),
                                       accepted |-> Accepts(c, published)])
    /\ UNCHANGED handleVars

RaceNext == \E i \in Invocations : RaceRender(i) \/ RaceSend(i)

RaceSpec == RaceInit /\ [][RaceNext]_vars

----------------------------------------------------------------------------
(* Vocabulary of the properties *)

\* handle has returned (or been ended by a panic).
Done == pc = "done"

\* The batch was handed to ChangeResourceRecordSets.
Submitted == Len(sent) > 0

\* The submission was accepted: WaitForRoute53Sync was entered.
Accepted == waitState # ""

\* w.Wait() has returned.
WaitOver == pc \in {"stop", "report", "done"} /\ Accepted

\* Some status poll answered INSYNC.
SawInsync == \E p \in 1..Len(pollLog) : pollLog[p] = "INSYNC"

\* The event decodes to a test notification.
IsTestNotification ==
    /\ ~parseFullEvent(evt).err
    /\ parseFullEvent(evt).message.Event = TestNotification

\* populate was called and FetchEC2InstanceData failed.
InstanceLookupFailed == nDescribe > 0 /\ data.InstanceID = ""

Sent(result) == \E p \in 1..Len(signals) : signals[p] = result

----------------------------------------------------------------------------
(* C1..C10: the handler's error boundary and the propagation driver *)

\* C1: when the batch is submitted and the submission is rejected or no poll
\* confirms propagation, the handler sends ABANDON and returns no error.
C1_AbandonOnSendFailure ==
    (Done /\ Submitted /\ (~Accepted \/ ~SawInsync))
        => (signals = <<"ABANDON">> /\ ret = "nil")

\* C1 witness: zone "bad" was submitted and rejected, ABANDON went out.
C1_Witness ==
    /\ Done
    /\ Submitted
    /\ ~Accepted
    /\ sent[1].HostedZoneId = "bad"
    /\ signals = <<"ABANDON">>
    /\ ret = "nil"

\* C2: a failure before the batch is submitted - the event does not decode,
\* the instance lookup fails, a template fails to parse or to evaluate (a
\* failed existing-record lookup included) - makes handle return an error, and
\* ChangeResourceRecordSets is never called in that invocation; no invocation
\* of an actionable event ends cleanly without having submitted.
C2_FailureBeforeSubmitReturnsError ==
    /\ (Done /\ (parseFullEvent(evt).err \/ InstanceLookupFailed \/ renderKind = "err"))
           => (ret = "err" /\ sent = <<>>)
    /\ (ret \in {"err", "panic"}) => sent = <<>>
    /\ (Done /\ ~Submitted /\ ret = "nil") => IsTestNotification

\* C2 witness: an existing-record lookup was made and failed, handle returned
\* the error.
C2_Witness ==
    /\ Done
    /\ renderKind = "err"
    /\ lookups # <<>>
    /\ ret = "err"
    /\ sent = <<>>

\* C3: CONTINUE is sent only when the batch was accepted and a poll within the
\* budget answered INSYNC; every other invocation that submits sends ABANDON;
\* never both.
C3_ContinueOnlyOnInsync ==
    /\ Sent("CONTINUE")
           => (Submitted /\ Accepted /\ SawInsync /\ Len(pollLog) <= MaxAttempts)
    /\ (Done /\ Submitted /\ ~(Accepted /\ SawInsync)) => signals = <<"ABANDON">>
    /\ ~(Sent("CONTINUE") /\ Sent("ABANDON"))

\* C3 witness: INSYNC came at the last attempt of the budget, CONTINUE went out.
C3_Witness ==
    /\ Done
    /\ signals = <<"CONTINUE">>
    /\ Len(pollLog) = MaxAttempts
    /\ pollLog[MaxAttempts] = "INSYNC"

\* C4 as claimed: a well-formed test notification completes without error and
\* runs no instance lookup, template resolution, submission, polling or
\* reporting.
C4_TestNotificationIsClean ==
    (Done /\ IsTestNotification)
        => /\ ret = "nil"
           /\ nDescribe = 0
           /\ lookups = <<>>
           /\ renderKind = ""
           /\ sent = <<>>
           /\ pollLog = <<>>
           /\ hbCount = 0
           /\ signals = <<>>

\* C5 as claimed: every invocation sends exactly one outcome signal, a test
\* notification none.
C5_ExactlyOneSignal ==
    Done => Len(signals) = (IF IsTestNotification THEN 0 ELSE 1)

\* C5 amended: no invocation sends more than one outcome signal; an invocation
\* that submits the batch sends exactly one, and one that ends before the
\* submission (a test notification, or a failure before the batch is
\* submitted) sends none.
C5_OneSignalIffSubmitted ==
    /\ Len(signals) <= 1
    /\ Done => Len(signals) = (IF Submitted THEN 1 ELSE 0)
    /\ signals # <<>> => (Submitted /\ ~IsTestNotification)

\* C5 witness: the instance lookup failed and the invocation ended with no
\* signal, though the event was no test notification.
C5_Witness ==
    /\ Done
    /\ InstanceLookupFailed
    /\ ~IsTestNotification
    /\ signals = <<>>

\* C6 as claimed: when processing the change batch results in an error - a
\* lookup that returns no data, an index out of range, a Route 53 error while
\* rendering, a rejected or unconfirmed submission - ABANDON is sent.
C6_BatchErrorAbandons ==
    (Done /\ (renderKind = "err" \/ sendErr # "")) => Sent("ABANDON")

\* C7: after an accepted submission with no INSYNC answer the driver polls at
\* most MaxAttempts (24) times, ends TIMED_OUT when all of them answered
\* without error, returns failure, and the handler sends ABANDON.
C7_AtMost24Polls ==
    /\ Len(pollLog) <= MaxAttempts
    /\ (WaitOver /\ ~SawInsync) => (waitState \in {"TIMED_OUT", "ERROR"} /\ sendErr # "")
    /\ (WaitOver /\ (\A p \in 1..Len(pollLog) : pollLog[p] = "PENDING"))
           => (waitState = "TIMED_OUT" /\ Len(pollLog) = MaxAttempts)
    /\ (Done /\ Accepted /\ ~SawInsync) => signals = <<"ABANDON">>

\* C7 witness: 24 polls, none INSYNC, TIMED_OUT, ABANDON.
C7_Witness ==
    /\ Done
    /\ Len(pollLog) = MaxAttempts
    /\ waitState = "TIMED_OUT"
    /\ sendErr # ""
    /\ signals = <<"ABANDON">>

\* C8: WaitForRoute53Sync returns success exactly when a poll within the
\* budget answered INSYNC; it is INSYNC from that poll on and polls no more;
\* a change whose polls only fail yields failure.
C8_SuccessIffInsync ==
    /\ WaitOver => ((sendErr = "") <=> SawInsync)
    /\ Accepted => ((waitState = "INSYNC") <=> SawInsync)
    /\ \A p \in 1..Len(pollLog) : pollLog[p] = "INSYNC" => p = Len(pollLog)
    /\ SawInsync => WaitOver
    /\ (WaitOver /\ pollLog # <<>> /\ (\A p \in 1..Len(pollLog) : pollLog[p] = "error"))
           => sendErr # ""

\* C8 witness: PENDING polls, then INSYNC, and WaitForRoute53Sync returned nil.
C8_Witness ==
    /\ pc = "report"
    /\ Len(pollLog) >= 3
    /\ pollLog[1] = "PENDING"
    /\ pollLog[Len(pollLog)] = "INSYNC"
    /\ waitState = "INSYNC"
    /\ sendErr = ""

\* C9 as claimed: a failed status poll leaves the driver PENDING and polling.
C9_PollErrorIsTransient ==
    (pollLog # <<>> /\ pollLog[Len(pollLog)] = "error" /\ Len(pollLog) < MaxAttempts)
        => (waitState = "PENDING" /\ pc = "polling")

\* C9 amended: a failed status poll ends the wait at once: no poll follows it
\* (so none can answer INSYNC after it), WaitForRoute53Sync returns the error
\* and the handler sends ABANDON.
C9_PollErrorEndsWait ==
    \A p \in 1..Len(pollLog) :
        pollLog[p] = "error"
            => /\ p = Len(pollLog)
               /\ waitState = "ERROR"
               /\ sendErr # ""
               /\ WaitOver
               /\ ~Sent("CONTINUE")
               /\ Done => signals = <<"ABANDON">>

\* C9 witness: two PENDING polls, then a failed one, and ABANDON.
C9_Witness ==
    /\ Done
    /\ pollLog = <<"PENDING", "PENDING", "error">>
    /\ signals = <<"ABANDON">>

\* C10: at most one heartbeat goroutine per WaitForRoute53Sync; whenever
\* the function has returned the goroutine has taken the stop signal and
\* ended, and no "Still waiting" line is logged after the return.
C10_HeartbeatStoppedBeforeReturn ==
    /\ hbCount <= 1
    /\ hbCount = (IF Accepted THEN 1 ELSE 0)
    /\ (pc \in {"report", "done"} /\ Accepted) => hb = "exited"
    /\ hb \in {"select", "sleeping"} => pc \in {"polling", "stop"}
    /\ ~logAfterReturn

\* C10 witness: the heartbeat logged, the polls ran out, and the goroutine had
\* ended when the invocation returned.
C10_Witness ==
    /\ Done
    /\ waitState = "TIMED_OUT"
    /\ hbLogs >= 1
    /\ hb = "exited"

----------------------------------------------------------------------------
(* Vocabulary of the rendering claims *)

\* The change batch as the event carries it, before any template is rendered.
OrigBatch == parseFullEvent(evt).args.Changes

\* Field fld of record n of a batch: 0 is the Name, k >= 1 is Value #k-1.
FieldOf(batch, r, f) == IF f = 0 THEN batch[r + 1].Name ELSE batch[r + 1].Values[f]

\* The template strings of the first r records in document order: record by
\* record, the Name and then the Values in sequence.
RECURSIVE FieldsUpTo(_, _)
FieldsUpTo(batch, r) ==
    IF r = 0 THEN <<>>
    ELSE FieldsUpTo(batch, r - 1)
         \o [f \in 1..(Len(batch[r].Values) + 1) |-> [n |-> r - 1, fld |-> f - 1]]

AllFields(batch) == FieldsUpTo(batch, Len(batch))

\* The template string holds an action ({{ ... }}).
HasTemplate(t) == \E p \in 1..Len(t) : t[p].k # "lit"

\* WriteTemplateFields has returned nil.
RenderedAll == pc \in {"send", "wait", "polling", "stop", "report"} \/ Submitted

\* Every rendering made so far succeeded.
AllRendersOk == \A p \in 1..Len(renders) : renders[p].kind = "ok"

----------------------------------------------------------------------------
\* C11: the renderings made so far are the first template strings of the batch
\* in document order (records ascending, in a record the Name and then the
\* Values in sequence), each one once; when WriteTemplateFields has returned
\* nil or the batch was submitted, every template string was rendered, and
\* none is rendered afterwards.
C11_RenderedOnceInOrder ==
    /\ Len(renders) <= Len(AllFields(OrigBatch))
    /\ \A p \in 1..Len(renders) :
        /\ renders[p].n = AllFields(OrigBatch)[p].n
        /\ renders[p].fld = AllFields(OrigBatch)[p].fld
    /\ RenderedAll => /\ Len(renders) = Len(AllFields(OrigBatch))
                      /\ AllRendersOk

\* Scenario A was submitted after its four template strings were rendered.
C11_Witness ==
    /\ Submitted
    /\ OrigBatch = BatchScenarioA
    /\ Len(renders) = 4
    /\ renders[4] = [n |-> 1, fld |-> 1, kind |-> "ok"]

----------------------------------------------------------------------------
\* C12 as stated: no lookup of ExistingRDataValue is made with a Name that
\* still holds template syntax.
C12_LookupSeesRenderedName ==
    \A p \in 1..Len(lookups) : ~HasTemplate(lookups[p].StartRecordName)

\* C12: the lookup of ExistingRDataValue for set index i is made with the Name
\* and Type of record i as they stand when the template is executed: the
\* rendered Name when the Name of record i was rendered before (i below the
\* record being rendered, or i that record and the template one of its
\* Values), and the Name as the event carries it, template syntax included,
\* when it was not (i above the record being rendered, or the template is the
\* Name of record i itself).
C12_LookupSeesCurrentName ==
    \A p \in 1..Len(calls) :
        LET c == calls[p]
            i == c.call.rrSetIndex
        IN  c.call.result.reqs # <<>> =>
                LET req == c.call.result.reqs[1] IN
                /\ req.StartRecordType = OrigBatch[i + 1].Type
                /\ IF i < c.n \/ (i = c.n /\ c.fld >= 1)
                   THEN /\ req.StartRecordName = Batch[i + 1].Name
                        /\ ~HasTemplate(req.StartRecordName)
                   ELSE req.StartRecordName = OrigBatch[i + 1].Name

\* The DELETE example: the Value of record 0 looks up record 0 under its
\* rendered Name.
C12_Witness ==
    /\ OrigBatch = BatchDelete
    /\ Len(calls) = 1
    /\ calls[1].n = 0 /\ calls[1].fld = 1 /\ calls[1].call.rrSetIndex = 0
    /\ calls[1].call.result.reqs # <<>>
    /\ calls[1].call.result.reqs[1].StartRecordName = Text("i-123456789.example.com.")
    /\ HasTemplate(OrigBatch[1].Name)

----------------------------------------------------------------------------
\* C13: a rendering that fails is the last one made: handle has returned and
\* ChangeResourceRecordSets was not called; a batch is submitted only when
\* every Name and every Value was rendered successfully, and it is submitted
\* as rendered.
C13_NoPartialBatch ==
    /\ \A p \in 1..Len(renders) :
        renders[p].kind # "ok" =>
            /\ p = Len(renders)
            /\ Done
            /\ ret \in {"err", "panic"}
            /\ ~Submitted
    /\ Submitted =>
        /\ AllRendersOk
        /\ Len(renders) = Len(AllFields(OrigBatch))
        /\ \A p \in 1..Len(renders) :
            ~HasTemplate(FieldOf(sent[1].Changes, renders[p].n, renders[p].fld))

\* The third template string of the batch failed after two that rendered.
C13_Witness ==
    /\ Done
    /\ OrigBatch = BatchBadValue
    /\ Len(renders) = 3
    /\ renders[3].kind = "err"
    /\ ~HasTemplate(Batch[1].Name)
    /\ ~Submitted

----------------------------------------------------------------------------
\* C14: a call of ExistingRDataValue with rrSetIndex at or above the length of
\* the batch fails with the rrSet out-of-range error and makes no lookup; a
\* call whose lookup found a record set fails with the rDataIndex out-of-range
\* error when rDataIndex is at or above the number of values found; a failed
\* call is the last call made: the rendering it belongs to failed, handle
\* returned the error and nothing was submitted.
C14_IndexOutOfRangeAborts ==
    \A p \in 1..Len(calls) :
        LET call == calls[p].call
            r == call.result
            found == FindRoute53ResourceRecord(call.resp)
        IN  /\ call.rrSetIndex >= Len(Batch) =>
                /\ r.kind = "err"
                /\ r.why = "rrSet index out of range"
                /\ r.reqs = <<>>
            /\ (r.reqs # <<>> /\ ~found.err /\ call.rDataIndex >= Len(found.rData)) =>
                /\ r.kind = "err"
                /\ r.why = "rDataIndex index out of range"
            /\ r.kind = "err" =>
                /\ p = Len(calls)
                /\ renders[Len(renders)].kind = "err"
                /\ renders[Len(renders)].n = calls[p].n
                /\ renders[Len(renders)].fld = calls[p].fld
                /\ Done
                /\ ret = "err"
                /\ ~Submitted

\* Value #0 found the second value of www.example.com.; Value #1 then asked for
\* set index 1 of a batch of one record.
C14_Witness ==
    /\ Done
    /\ OrigBatch = BatchOutOfRange
    /\ Len(calls) = 2
    /\ calls[1].call.result.kind = "ok"
    /\ calls[2].call.rrSetIndex = Len(Batch)
    /\ calls[2].call.result.why = "rrSet index out of range"
    /\ Len(lookups) = 1
    /\ ret = "err"

----------------------------------------------------------------------------
(* Vocabulary of the substitution claims *)

\* DescribeInstances answered with an instance.
InstanceFound ==
    /\ Len(described) > 0
    /\ ~described[1].err
    /\ Len(described[1].Reservations) > 0
    /\ Len(described[1].Reservations[1]) > 0

TheInstance == described[1].Reservations[1][1]

\* The attribute is missing or the empty string.
NoAddress(a) == a.nil \/ a.v = ""

\* What one item of a template string stands for in context d.
ItemText(it, d) ==
    IF it.k = "lit" THEN it.s
    ELSE IF it.k = "InstanceID" THEN d.InstanceID
    ELSE IF it.k = "InstancePrivateIPAddress" THEN d.InstancePrivateIPAddress
    ELSE d.InstancePublicIPAddress

\* The template string with every placeholder replaced by its attribute of d.
RECURSIVE Substituted(_, _)
Substituted(t, d) ==
    IF t = <<>> THEN "" ELSE ItemText(Head(t), d) \o Substituted(Tail(t), d)

InstanceAttributes ==
    {"lit", "InstanceID", "InstancePrivateIPAddress", "InstancePublicIPAddress"}

\* Every item of every template string of the batch has its kind in kinds.
OnlyItems(batch, kinds) ==
    \A p \in 1..Len(AllFields(batch)) :
        LET t == FieldOf(batch, AllFields(batch)[p].n, AllFields(batch)[p].fld)
        IN  \A q \in 1..Len(t) : t[q].k \in kinds

----------------------------------------------------------------------------
\* C15: when DescribeInstances answers with an instance whose private or
\* public address is missing or empty, populate succeeds and the matching
\* field of the context is the empty string; a template string that is just
\* that placeholder then renders, without error, as the empty string.
C15_MissingAddressRendersEmpty ==
    InstanceFound =>
        /\ ~InstanceLookupFailed
        /\ data.InstanceID = message.EC2InstanceID
        /\ NoAddress(TheInstance.PrivateIpAddress) => data.InstancePrivateIPAddress = ""
        /\ NoAddress(TheInstance.PublicIpAddress) => data.InstancePublicIPAddress = ""
        /\ \A p \in 1..Len(renders) :
            LET t == FieldOf(OrigBatch, renders[p].n, renders[p].fld)
                missing == \/ t = <<FPrivate>> /\ NoAddress(TheInstance.PrivateIpAddress)
                           \/ t = <<FPublic>> /\ NoAddress(TheInstance.PublicIpAddress)
            IN  missing => /\ renders[p].kind = "ok"
                           /\ FieldOf(Batch, renders[p].n, renders[p].fld) = Text("")

\* Scenario A for an instance without a private address and with an empty
\* public one: the A record is submitted with the empty string as its value.
C15_Witness ==
    /\ Submitted
    /\ OrigBatch = BatchScenarioA
    /\ InstanceFound
    /\ TheInstance.PrivateIpAddress.nil
    /\ TheInstance.PublicIpAddress = Str("")
    /\ data.InstancePublicIPAddress = ""
    /\ sent[1].Changes[1].Values[1] = Text("")

----------------------------------------------------------------------------
\* C16: once WriteTemplateFields has returned nil for a batch whose template
\* strings hold instance attributes only, every Name and Value is its template
\* string with the placeholders replaced by the attributes of the context; for
\* Scenario A and instance i-123456789 with private address 10.0.0.1 and
\* public address 54.0.0.1 that is: record 0 named i-123456789.example.com.
\* with value 54.0.0.1, record 1 with value i-123456789.example.com.
C16_InstanceAttributesSubstituted ==
    (RenderedAll /\ OnlyItems(OrigBatch, InstanceAttributes)) =>
        /\ \A p \in 1..Len(AllFields(OrigBatch)) :
            LET f == AllFields(OrigBatch)[p] IN
            FieldOf(Batch, f.n, f.fld) = Text(Substituted(FieldOf(OrigBatch, f.n, f.fld), data))
        /\ ( /\ OrigBatch = BatchScenarioA
             /\ message.EC2InstanceID = "i-123456789"
             /\ TheInstance = Instance(Str("10.0.0.1"), Str("54.0.0.1")) ) =>
                /\ Batch[1].Name = Text("i-123456789.example.com.")
                /\ Batch[1].Values = << Text("54.0.0.1") >>
                /\ Batch[2].Name = Text("www.example.com.")
                /\ Batch[2].Values = << Text("i-123456789.example.com.") >>

\* Scenario A was rendered for the instance of the tests and submitted.
C16_Witness ==
    /\ Submitted
    /\ OrigBatch = BatchScenarioA
    /\ InstanceFound
    /\ TheInstance = Instance(Str("10.0.0.1"), Str("54.0.0.1"))
    /\ sent[1].Changes[1].Values = << Text("54.0.0.1") >>
    /\ sent[1].Changes[2].Values = << Text("i-123456789.example.com.") >>

----------------------------------------------------------------------------
\* C17: for a batch whose template strings hold no placeholder, every Name and
\* Value is, all through the rendering and in the batch submitted, the one the
\* event carries; every rendering succeeds and no lookup is made.
C17_LiteralBatchUnchanged ==
    (pc # "start" /\ ~parseFullEvent(evt).err /\ OnlyItems(OrigBatch, {"lit"})) =>
        /\ Batch = OrigBatch
        /\ AllRendersOk
        /\ lookups = <<>>
        /\ calls = <<>>
        /\ Submitted => sent[1].Changes = OrigBatch

\* The batch of literals was rendered, three template strings, and submitted.
C17_Witness ==
    /\ Submitted
    /\ OrigBatch = BatchLiteral
    /\ Len(renders) = 3
    /\ sent[1].Changes = BatchLiteral

----------------------------------------------------------------------------
\* C19 as stated: a lookup that lists no record set, or a first record set
\* whose name or type is not the requested one, makes ExistingRDataValue fail
\* with the error of FindRoute53ResourceRecord.
C19_LookupMatchesNameAndType ==
    \A p \in 1..Len(calls) :
        LET call == calls[p].call
            r == call.result
        IN  r.reqs # <<>> =>
            LET req == r.reqs[1]
                sets == call.resp.ResourceRecordSets
                matches == /\ Len(sets) > 0
                           /\ Text(sets[1].Name) = req.StartRecordName
                           /\ sets[1].Type = req.StartRecordType
            IN  ~matches => (r.kind = "err" /\ r.why = "lookup")

----------------------------------------------------------------------------
\* C20: ChangeResourceRecordSets is called at most once in an invocation,
\* whatever the status polls answer; after an accepted submission it was
\* called exactly once.
C20_AtMostOneSubmission ==
    /\ Len(sent) <= 1
    /\ Accepted => Len(sent) = 1

\* The wait ended on a failed poll after at least one pending poll; one batch
\* was sent.
C20_Witness ==
    /\ Done
    /\ Len(sent) = 1
    /\ Len(pollLog) >= 2
    /\ pollLog[Len(pollLog)] = "error"

----------------------------------------------------------------------------
\* C21: when CompleteLifecycleAction returns an error, for CONTINUE as for
\* ABANDON, handle has returned nil, nil: the error is not returned to the
\* runtime, the signal was sent once and the batch once.
C21_SignalErrorNotEscalated ==
    sigErrs > 0 =>
        /\ Done
        /\ ret = "nil"
        /\ failed = ""
        /\ sigErrs = 1
        /\ Len(signals) = 1
        /\ Len(sent) = 1
        /\ signals[1] = (IF sendErr = "" THEN "CONTINUE" ELSE "ABANDON")

\* The change was INSYNC and the CONTINUE signal could not be delivered.
C21_Witness ==
    /\ Done
    /\ sigErrs = 1
    /\ signals = <<"CONTINUE">>
    /\ waitState = "INSYNC"
    /\ ret = "nil"

----------------------------------------------------------------------------
\* C22: DescribeInstances is called at most once; when it answers with an
\* error, with no reservation or with a first reservation without instances,
\* FetchEC2InstanceData fails, and so do populate and handle, before any
\* template is rendered; otherwise the context is filled from the first
\* instance of the first reservation.
C22_FirstInstanceOrFailure ==
    /\ nDescribe <= 1
    /\ Len(described) = nDescribe
    /\ nDescribe = 1 =>
        LET resp == described[1]
            none == \/ resp.err
                    \/ Len(resp.Reservations) = 0
                    \/ Len(resp.Reservations[1]) = 0
        IN  IF none
            THEN /\ Done
                 /\ ret = "err"
                 /\ failed = "instance"
                 /\ data.InstanceID = ""
                 /\ renders = <<>>
                 /\ lookups = <<>>
                 /\ ~Submitted
                 /\ signals = <<>>
            ELSE LET first == resp.Reservations[1][1] IN
                 /\ failed # "instance"
                 /\ data.InstanceID = message.EC2InstanceID
                 /\ data.InstancePrivateIPAddress =
                        (IF first.PrivateIpAddress.nil THEN "" ELSE first.PrivateIpAddress.v)
                 /\ data.InstancePublicIPAddress =
                        (IF first.PublicIpAddress.nil THEN "" ELSE first.PublicIpAddress.v)

\* Two reservations, the first with two instances: the addresses are those of
\* its first instance.
C22_Witness ==
    /\ nDescribe = 1
    /\ ~described[1].err
    /\ Len(described[1].Reservations) = 2
    /\ Len(described[1].Reservations[1]) = 2
    /\ data.InstancePrivateIPAddress = "10.0.0.2"
    /\ data.InstancePublicIPAddress = ""
    /\ pc = "render"

----------------------------------------------------------------------------
\* C25: when ChangeResourceRecordSets rejects the batch, GetChange is never
\* polled and no heartbeat goroutine is started: SendRoute53ChangeBatch has
\* returned the error without entering WaitForRoute53Sync.
C25_RejectedBatchIsNotPolled ==
    sendErr = "Error sending change batch" =>
        /\ pc \in {"report", "done"}
        /\ pollLog = <<>>
        /\ waitState = ""
        /\ hb = "none"
        /\ hbCount = 0
        /\ hbLogs = 0

\* The invocation of a rejected batch is over: ABANDON was sent, nothing was
\* polled.
C25_Witness ==
    /\ Done
    /\ sendErr = "Error sending change batch"
    /\ signals = <<"ABANDON">>
    /\ pollLog = <<>>
    /\ hbCount = 0

----------------------------------------------------------------------------
(* Vocabulary of the decoding claim *)

\* The first record's message decodes.
MessageDecodes ==
    /\ evt.json = "ok"
    /\ Len(evt.Records) > 0
    /\ evt.Records[1].json = "ok"

\* ... and it is a test notification.
DecodesToTest == MessageDecodes /\ evt.Records[1].Event = TestNotification

\* ... and it is not, and its metadata string decodes.
DecodesToHook ==
    /\ MessageDecodes
    /\ evt.Records[1].Event # TestNotification
    /\ evt.Records[1].NotificationMetadata.json = "ok"

----------------------------------------------------------------------------
\* C26: after parseFullEvent, handle has returned the decoding error when the
\* event is malformed or has no records, when the first record's message is
\* malformed, or when the event is no test notification and its metadata
\* string does not decode; a test notification is decoded without error, with
\* the zero messageArgs, whatever its metadata string holds; any other event
\* is decoded to its message and its metadata.
C26_DecodeFailuresAndTestEvent ==
    pc # "start" =>
        /\ (~DecodesToTest /\ ~DecodesToHook) =>
            (Done /\ ret = "err" /\ failed = "decode" /\ nDescribe = 0)
        /\ DecodesToTest =>
            /\ failed # "decode"
            /\ message.Event = TestNotification
            /\ args.HostedZoneID = ""
            /\ Batch = <<>>
            /\ ~parseFullEvent(evt).metaParsed
        /\ DecodesToHook =>
            /\ failed # "decode"
            /\ message.Event = evt.Records[1].Event
            /\ message.EC2InstanceID = evt.Records[1].EC2InstanceID
            /\ args.HostedZoneID = evt.Records[1].NotificationMetadata.HostedZoneID
            /\ Len(Batch) = Len(evt.Records[1].NotificationMetadata.Changes)

\* A test notification whose metadata string is malformed was decoded without
\* error.
C26_Witness ==
    /\ pc = "client"
    /\ DecodesToTest
    /\ evt.Records[1].NotificationMetadata.json = "malformed"
    /\ message.Event = TestNotification
    /\ ret = "none"

----------------------------------------------------------------------------
\* C23: under fair scheduling, once WaitForRoute53Sync is entered it returns:
\* the poll loop ends, the send on stop is taken by the heartbeat goroutine,
\* which ends, and handle reports and returns.
C23_WaitReturns == Accepted ~> (Done /\ hb = "exited" /\ Len(signals) = 1)

\* The poll loop ended on a failed poll while the heartbeat goroutine slept;
\* it logged, took the stop signal and ended, and handle returned.
C23_Witness ==
    /\ Done
    /\ hb = "exited"
    /\ waitState = "ERROR"
    /\ logAfterWait
    /\ signals = <<"ABANDON">>

----------------------------------------------------------------------------
\* C24 as stated: no "Still waiting" line is logged after w.Wait() returned.
C24_NoLogAfterWait == ~logAfterWait

\* C24: "Still waiting" lines are logged only between the start of the wait
\* and the return of WaitForRoute53Sync: one can still be logged after
\* w.Wait() has returned, by a goroutine that was asleep when the poll loop
\* ended, but none after stop was taken; and no step of the heartbeat
\* goroutine changes the state or the result of the driver.
C24_HeartbeatOnlyObserves ==
    /\ [](hbLogs > 0 => Accepted)
    /\ [](~logAfterReturn)
    /\ [][(HeartbeatSleep \/ HeartbeatLog) =>
            /\ pc \in {"polling", "stop"}
            /\ UNCHANGED <<pc, ret, failed, sent, sendErr, signals, sigErrs, waitState,
                           pollLog, Batch, lookups>>]_vars

\* A line was logged after w.Wait() had returned INSYNC; CONTINUE was sent all
\* the same.
C24_Witness ==
    /\ Done
    /\ logAfterWait
    /\ hbLogs > 0
    /\ waitState = "INSYNC"
    /\ signals = <<"CONTINUE">>
    /\ ret = "nil"

----------------------------------------------------------------------------
(* Vocabulary of the ordering claim *)

\* The collaborator calls made so far, by kind: DescribeInstances,
\* ListResourceRecordSets, ChangeResourceRecordSets, GetChange,
\* CompleteLifecycleAction.
CallLog == <<nDescribe, lookups, sent, pollLog, signals>>

----------------------------------------------------------------------------
\* C27: the collaborator calls of an invocation come one kind after the other:
\* every lookup of an existing record after the instance lookup, the
\* submission after the last of them, every status poll after the submission,
\* the outcome signal after the last poll (or after the rejected submission)
\* and nothing after it; no step makes calls of two kinds, and the heartbeat
\* goroutine makes none.
C27_CallsInOrder ==
    /\ [](lookups # <<>> => nDescribe = 1)
    /\ [](Submitted => (nDescribe = 1 /\ pc \notin {"start", "client", "event", "render"}))
    /\ [](pollLog # <<>> => Submitted)
    /\ [](signals # <<>> => (Submitted /\ Done))
    /\ [][Submitted => (nDescribe' = nDescribe /\ lookups' = lookups)]_vars
    /\ [][pollLog # <<>> => sent' = sent]_vars
    /\ [][signals # <<>> => CallLog' = CallLog]_vars
    /\ [][(HeartbeatSleep \/ HeartbeatLog) => CallLog' = CallLog]_vars
    /\ [][\A i, j \in 1..5 :
            (CallLog'[i] # CallLog[i] /\ CallLog'[j] # CallLog[j]) => i = j]_vars

\* An invocation that made every kind of call: instance lookup, record
\* lookup, submission, two polls or more, signal.
C27_Witness ==
    /\ Done
    /\ nDescribe = 1
    /\ Len(lookups) = 1
    /\ Len(sent) = 1
    /\ Len(pollLog) >= 2
    /\ signals = <<"CONTINUE">>
    /\ hbLogs > 0

----------------------------------------------------------------------------
\* C28: WriteTemplateFields changes Names and Values only: the batch keeps its
\* records, each its Action, Type, TTL and number of Values, in the order of
\* the event, and a Name or Value without placeholder stays as it is; the
\* hosted zone id is the one of the event; the batch submitted is the batch as
\* rendered, sent to the zone id the lookups used.
C28_OnlyNamesAndValuesChange ==
    (pc # "start" /\ ~parseFullEvent(evt).err) =>
        /\ args.HostedZoneID = parseFullEvent(evt).args.HostedZoneID
        /\ Len(Batch) = Len(OrigBatch)
        /\ \A r \in 1..Len(Batch) :
            /\ Batch[r].Action = OrigBatch[r].Action
            /\ Batch[r].Type = OrigBatch[r].Type
            /\ Batch[r].TTL = OrigBatch[r].TTL
            /\ Len(Batch[r].Values) = Len(OrigBatch[r].Values)
        /\ \A p \in 1..Len(AllFields(OrigBatch)) :
            LET f == AllFields(OrigBatch)[p] IN
            ~HasTemplate(FieldOf(OrigBatch, f.n, f.fld)) =>
                FieldOf(Batch, f.n, f.fld) = FieldOf(OrigBatch, f.n, f.fld)
        /\ \A p \in 1..Len(lookups) : lookups[p].HostedZoneId = args.HostedZoneID
        /\ Submitted =>
            /\ sent[1].Changes = Batch
            /\ sent[1].HostedZoneId = args.HostedZoneID

\* A batch with a lookup was rendered and submitted: its first Value changed,
\* its second Name too.
C28_Witness ==
    /\ Submitted
    /\ OrigBatch = BatchForward
    /\ Len(lookups) = 1
    /\ lookups[1].HostedZoneId = sent[1].HostedZoneId
    /\ sent[1].Changes[1].Values[1] # OrigBatch[1].Values[1]
    /\ sent[1].Changes[2].Name = Text("i-123456789.example.com.")

----------------------------------------------------------------------------
\* C29 as stated: ExistingRDataValue never indexes the batch or the values
\* found with an index out of range, and returns an error for a negative
\* rrSetIndex or rDataIndex.
C29_NegativeIndexIsError ==
    \A p \in 1..Len(calls) :
        LET call == calls[p].call IN
        /\ call.result.kind # "panic"
        /\ (call.rrSetIndex < 0 \/ call.rDataIndex < 0) => call.result.kind = "err"

----------------------------------------------------------------------------
\* C30: when a rendering fails, handle has returned and the batch is left as
\* it was at that moment: every template string before the failed one holds
\* its rendering (for instance attributes, the substituted text), the failed
\* one and every one after it, the later records included, is still as the
\* event carries it.
C30_FailureLeavesPrefixRendered ==
    (renders # <<>> /\ renders[Len(renders)].kind # "ok") =>
        LET k == Len(renders)
            all == AllFields(OrigBatch)
        IN  /\ Done
            /\ ret \in {"err", "panic"}
            /\ n = renders[k].n
            /\ fld = renders[k].fld
            /\ \A p \in 1..Len(all) :
                LET now == FieldOf(Batch, all[p].n, all[p].fld)
                    was == FieldOf(OrigBatch, all[p].n, all[p].fld)
                IN  IF p < k
                    THEN /\ ~HasTemplate(now)
                         /\ (\A q \in 1..Len(was) : was[q].k \in InstanceAttributes) =>
                                now = Text(Substituted(was, data))
                    ELSE now = was

\* The third template string failed: the Name and the first Value of record 0
\* are rendered, its second Value and record 1 are not.
C30_Witness ==
    /\ Done
    /\ ret = "err"
    /\ OrigBatch = BatchBadValue
    /\ data.InstancePrivateIPAddress = "10.0.0.1"
    /\ Batch[1].Name = Text("i-123456789.example.com.")
    /\ Batch[1].Values = << Text("10.0.0.1"), <<FMalformed>> >>
    /\ Batch[2] = BatchBadValue[2]
    /\ HasTemplate(Batch[2].Values[1])

----------------------------------------------------------------------------
\* C31: handle does not serialize two invocations on one record: an
\* invocation that has not rendered can render, and one that has rendered can
\* submit, wherever the other invocation is; and the batch an invocation
\* submits carries the value its lookup returned, whatever Route 53 holds for
\* the record when the batch is submitted.
C31_InvocationsNotSerialized ==
    /\ \A i \in Invocations :
        /\ inv[i].pc = "render" => ENABLED RaceRender(i)
        /\ inv[i].pc = "send" => ENABLED RaceSend(i)
    /\ \A p, r \in 1..Len(raceLog) :
        ( /\ p < r
          /\ raceLog[p].op = "lookup"
          /\ raceLog[r].op = "send"
          /\ raceLog[p].inv = raceLog[r].inv ) =>
            /\ raceLog[p].accepted
            /\ raceLog[p].values # <<>>
            /\ raceLog[r].values[1] = raceLog[p].values[1]

\* One invocation looked the record up, the other invocation's change of the
\* record was applied, and the first then submitted a batch built from the
\* value it had read, which Route 53 no longer held; the batch was accepted.
C31_Witness ==
    \E p, q, r \in 1..Len(raceLog) :
        /\ p < q /\ q < r
        /\ raceLog[p].op = "lookup"
        /\ raceLog[q].op = "send"
        /\ raceLog[r].op = "send"
        /\ raceLog[p].inv = raceLog[r].inv
        /\ raceLog[q].inv # raceLog[p].inv
        /\ raceLog[q].accepted
        /\ raceLog[r].held # raceLog[p].held
        /\ raceLog[r].values[1] = raceLog[p].held[1]
        /\ raceLog[r].accepted

====
